---- MODULE Spec2Model ----
(***************************************************************************)
(* selenium-assistant: the session lifecycle helper                        *)
(* (SeleniumAssistant.killWebDriver, src/src/index.js) and the local       *)
(* browser entity (LocalBrowser, src/unnamed/part_000).                    *)
(*                                                                         *)
(* Five state machines share this module.  SpecKill runs killWebDriver     *)
(* calls against a clock; SpecValid runs isValid() of one LocalBrowser     *)
(* entity over all its inputs; SpecBrowser runs the entity's operations    *)
(* that keep state; SpecEntity runs the constructor and the entity's       *)
(* getters; SpecDiscover runs getLocalBrowsers().  Each leaves the others' *)
(* variables alone.                                                        *)
(***************************************************************************)
EXTENDS Integers, Sequences, FiniteSets, TLC

VARIABLES
  now,                \* the clock, in milliseconds
  kills,              \* the killWebDriver calls made so far
  rawVerstionString,  \* LocalBrowser._rawVerstionString
  execCount,          \* how often execSync ran the executable with --version
  rawCalls,           \* how often getRawVersionString() was called
  pathAdds,           \* how often process.env.PATH was appended to
  last,               \* the entity's last operation: its inputs and its outcome
  entity,             \* the LocalBrowser a constructor call made: its fields
  discovery           \* the getLocalBrowsers() call in progress, or finished

vars == <<now, kills, rawVerstionString, execCount, rawCalls, pathAdds, last,
          entity, discovery>>
killVars == <<now, kills>>
browserVars == <<rawVerstionString, execCount, rawCalls, pathAdds, last>>
entityVars == <<entity, discovery>>

(***************************************************************************)
(* Bounds of the model.                                                    *)
(***************************************************************************)
\* how many killWebDriver calls a run makes
MaxCalls == 2
\* how many getRawVersionString() calls a run makes
MaxRawCalls == 3
\* the browser versions are 1..MaxVersion, and -1 for unknown
MaxVersion == 3
\* how often a run lets getSeleniumDriver() append to process.env.PATH
MaxPathAdds == 2
\* how many browsers getSupportedBrowsers() returns, at most
MaxBrowsers == 3
\* clock steps per grace period: the clock advances by GracePeriod \div TicksPerPeriod
TicksPerPeriod == 2
\* the clock stops here (milliseconds)
MaxTime == 8000

(***************************************************************************)
(* Program constants.                                                      *)
(***************************************************************************)
\* setTimeout(resolve, 2000) racing driver.quit()
GracePeriod == 2000
\* setTimeout(resolve, 2000) after the race
SettlePeriod == 2000

Calls == 1..MaxCalls
Quantum == GracePeriod \div TicksPerPeriod

Min(S) == CHOOSE x \in S : \A y \in S : x <= y

(***************************************************************************)
(* JavaScript values, as far as killWebDriver looks at them.               *)
(* A handle is undefined, null or an object; an object's quit member is    *)
(* undefined (missing), 0 (falsy, not a function), a string (truthy, not a *)
(* function) or a function.                                                *)
(***************************************************************************)
QuitValues == {"undefined", "zero", "string", "function"}

Handles ==
  {[type |-> "undefined", quit |-> "undefined"],
   [type |-> "null", quit |-> "undefined"]}
  \cup {[type |-> "object", quit |-> q] : q \in QuitValues}

\* typeof driver === 'undefined' || driver === null
IsNullish(h) == h.type = "undefined" \/ h.type = "null"

\* !v: undefined, null, 0 and the empty string are falsy
Falsy(q) == q \in {"undefined", "null", "zero", "empty"}

\* typeof v, for the values a quit member takes
TypeOf(q) ==
  CASE q = "undefined" -> "undefined"
    [] q = "zero" -> "number"
    [] q = "string" -> "string"
    [] q = "function" -> "function"

QuitMissingError == "Unable to find a quit method on the web driver."
TypeError == "TypeError"

\* KillGuard with the undefined test left out: driver.quit is then read off
\* undefined, which throws
KillGuardNullOnly(h) ==
  IF h.type = "null" THEN "resolve"
  ELSE IF h.type = "undefined" THEN "throw"
  ELSE IF Falsy(h.quit) \/ TypeOf(h.quit) # "function" THEN "reject"
  ELSE "race"

\* KillGuard with the typeof test left out
KillGuardFalsyOnly(h) ==
  IF IsNullish(h) THEN "resolve"
  ELSE IF Falsy(h.quit) THEN "reject"
  ELSE "race"

\* the three ways out of killWebDriver's opening checks
KillGuard(h) ==
  IF IsNullish(h) THEN "resolve"
  ELSE IF Falsy(h.quit) \/ TypeOf(h.quit) # "function" THEN "reject"
  ELSE "race"

\* a call that has not been made
IdleKill ==
  [handle |-> [type |-> "undefined", quit |-> "undefined"],
   called |-> FALSE, result |-> "none", error |-> "none",
   outer |-> "none", thenPending |-> FALSE,
   graceArmed |-> FALSE, graceAt |-> 0,
   settleArmed |-> FALSE, settleAt |-> 0,
   timers |-> 0, quitCalls |-> 0,
   quit |-> "none", reactionPending |-> FALSE,
   startTime |-> 0, endTime |-> 0, closedBefore |-> FALSE,
   raceWonBy |-> "none", raceEndAt |-> 0]
(***************************************************************************)
(* killWebDriver, the synchronous part.                                    *)
(***************************************************************************)
\* RaceStart with the fallback timer left out
RaceStartNoTimer(k, t) ==
  [k EXCEPT !.result = "pending", !.outer = "pending",
            !.quitCalls = 1, !.quit = "pending"]

\* new Promise((resolve) => { quitTimeout = setTimeout(resolve, 2000);
\*                            driver.quit().then(resolve, resolve); })
\* Calling a quit that is no function throws inside the executor, after the
\* timer was set: the promise is rejected with the TypeError.
RaceStart(k, t) ==
  IF TypeOf(k.handle.quit) = "function"
  THEN [k EXCEPT !.result = "pending", !.outer = "pending",
                 !.graceArmed = TRUE, !.graceAt = t + GracePeriod,
                 !.timers = 1, !.quitCalls = 1, !.quit = "pending"]
  ELSE [k EXCEPT !.result = "rejected", !.error = TypeError,
                 !.outer = "rejected",
                 !.graceArmed = TRUE, !.graceAt = t + GracePeriod,
                 !.timers = 1]

\* the call record when killWebDriver(h) returns, called at time t
KillCall(h, t, closed) ==
  LET g == KillGuard(h)
      base == [IdleKill EXCEPT !.handle = h, !.called = TRUE,
                               !.startTime = t, !.endTime = t,
                               !.closedBefore = closed]
  IN CASE g = "resolve" -> [base EXCEPT !.result = "fulfilled"]
       [] g = "reject" -> [base EXCEPT !.result = "rejected",
                                       !.error = QuitMissingError]
       [] g = "race" -> RaceStart(base, t)
       [] OTHER -> [base EXCEPT !.result = "threw", !.error = TypeError]

\* resolve of the first promise, called at time t by the quit reaction or by
\* the grace timer: only the first call settles it
Resolve(k, t, by) ==
  IF k.outer = "pending"
  THEN [k EXCEPT !.outer = "fulfilled", !.thenPending = TRUE,
                 !.raceWonBy = by, !.raceEndAt = t]
  ELSE k

\* AfterRace with the settle delay left out: setTimeout(resolve)
AfterRaceNoDelay(k, t) ==
  [k EXCEPT !.thenPending = FALSE, !.graceArmed = FALSE,
            !.settleArmed = TRUE, !.settleAt = t,
            !.timers = k.timers + 1]

\* AfterRace with clearTimeout(quitTimeout) left out
AfterRaceKeepsTimer(k, t) ==
  [k EXCEPT !.thenPending = FALSE,
            !.settleArmed = TRUE, !.settleAt = t + SettlePeriod,
            !.timers = k.timers + 1]

\* .then(() => { clearTimeout(quitTimeout);
\*               return new Promise((resolve, reject) => { setTimeout(resolve, 2000); }); })
AfterRace(k, t) ==
  [k EXCEPT !.thenPending = FALSE, !.graceArmed = FALSE,
            !.settleArmed = TRUE, !.settleAt = t + SettlePeriod,
            !.timers = k.timers + 1]

\* a promise job is queued: it runs before any timer and before time passes
MicrotaskPending ==
  \E c \in Calls : kills[c].thenPending \/ kills[c].reactionPending

\* a timer is due now
TimerDue ==
  \E c \in Calls : \/ kills[c].graceArmed /\ kills[c].graceAt <= now
                   \/ kills[c].settleArmed /\ kills[c].settleAt <= now

Deadlines ==
  {kills[c].graceAt : c \in {d \in Calls : kills[d].graceArmed}}
  \cup {kills[c].settleAt : c \in {d \in Calls : kills[d].settleArmed}}

\* the driver was already closed by a killWebDriver call that has completed
Closed ==
  \E c \in Calls : /\ kills[c].called
                   /\ kills[c].handle.type = "object"
                   /\ kills[c].handle.quit = "function"
                   /\ kills[c].result = "fulfilled"

(***************************************************************************)
(* The actions of SpecKill.                                                *)
(***************************************************************************)
\* the caller calls killWebDriver(h)
KillWebDriver(c, h) ==
  /\ ~kills[c].called
  /\ \A d \in Calls : d < c => kills[d].called
  /\ kills' = [kills EXCEPT ![c] = KillCall(h, now, Closed /\ h.quit = "function")]
  /\ UNCHANGED <<now, browserVars, entityVars>>

\* the promise driver.quit() returned is fulfilled or rejected by the driver
\* (a WebDriver's quit() returns a promise; one that never settles is the run
\* in which this action never happens)
QuitSettles(c, outcome) ==
  /\ kills[c].quit = "pending"
  /\ ~MicrotaskPending
  /\ kills' = [kills EXCEPT ![c].quit = outcome, ![c].reactionPending = TRUE]
  /\ UNCHANGED <<now, browserVars, entityVars>>

\* .then(resolve, resolve): either handler is resolve
QuitReaction(c) ==
  /\ kills[c].reactionPending
  /\ kills' = [kills EXCEPT ![c] = Resolve([kills[c] EXCEPT !.reactionPending = FALSE], now, "quit")]
  /\ UNCHANGED <<now, browserVars, entityVars>>

\* the grace timer fires: setTimeout(resolve, 2000)
GraceTimerFires(c) ==
  /\ kills[c].graceArmed
  /\ kills[c].graceAt <= now
  /\ ~MicrotaskPending
  /\ kills' = [kills EXCEPT ![c] = Resolve([kills[c] EXCEPT !.graceArmed = FALSE], now, "timer")]
  /\ UNCHANGED <<now, browserVars, entityVars>>

\* the callback chained on the first promise runs
ThenCallback(c) ==
  /\ kills[c].thenPending
  /\ kills' = [kills EXCEPT ![c] = AfterRace(kills[c], now)]
  /\ UNCHANGED <<now, browserVars, entityVars>>

\* the settle timer fires: the promise killWebDriver returned is fulfilled
SettleTimerFires(c) ==
  /\ kills[c].settleArmed
  /\ kills[c].settleAt <= now
  /\ ~MicrotaskPending
  /\ kills' = [kills EXCEPT ![c].settleArmed = FALSE,
                            ![c].result = "fulfilled",
                            ![c].endTime = now]
  /\ UNCHANGED <<now, browserVars, entityVars>>

\* time passes, up to the next timer: a timer's callback runs when its delay
\* has passed, before the clock moves on
Tick ==
  /\ now < MaxTime
  /\ ~MicrotaskPending
  /\ ~TimerDue
  /\ now' = Min({now + Quantum, MaxTime} \cup Deadlines)
  /\ UNCHANGED <<kills, browserVars, entityVars>>

NextKill ==
  \/ \E c \in Calls, h \in Handles : KillWebDriver(c, h)
  \/ \E c \in Calls, outcome \in {"fulfilled", "rejected"} : QuitSettles(c, outcome)
  \/ \E c \in Calls : QuitReaction(c)
  \/ \E c \in Calls : GraceTimerFires(c)
  \/ \E c \in Calls : ThenCallback(c)
  \/ \E c \in Calls : SettleTimerFires(c)
  \/ Tick

NoLast == [op |-> "none"]

\* no constructor call has returned an entity
NoEntity == [made |-> FALSE]

\* getLocalBrowsers() has not been called
NoDiscovery == [status |-> "idle"]

Init ==
  /\ now = 0
  /\ kills = [c \in Calls |-> IdleKill]
  /\ rawVerstionString = "undefined"
  /\ execCount = 0
  /\ rawCalls = 0
  /\ pathAdds = 0
  /\ last = NoLast
  /\ entity = NoEntity
  /\ discovery = NoDiscovery

SpecKill == Init /\ [][NextKill]_vars
(***************************************************************************)
(* Claims about killWebDriver, checked under SpecKill.                     *)
(***************************************************************************)
QuitCapable(k) == k.called /\ k.handle.type = "object" /\ k.handle.quit = "function"

Elapsed(k) == k.endTime - k.startTime

\* C1: for a handle with a quit function, the promise killWebDriver returned
\* is never rejected and is fulfilled no later than GracePeriod + SettlePeriod
\* after the call, whether quit() fulfils, rejects or never settles: while it
\* is pending no more than that has passed, and once fulfilled no more than
\* that had passed.
C1_KillBounded ==
  \A c \in Calls :
    QuitCapable(kills[c]) =>
      /\ kills[c].result \in {"pending", "fulfilled"}
      /\ kills[c].result = "pending" =>
           now - kills[c].startTime <= GracePeriod + SettlePeriod
      /\ kills[c].result = "fulfilled" =>
           Elapsed(kills[c]) <= GracePeriod + SettlePeriod

\* a call whose quit() never settled was fulfilled at exactly the bound
C1_Witness ==
  \E c \in Calls :
    /\ QuitCapable(kills[c])
    /\ kills[c].quit = "pending"
    /\ kills[c].result = "fulfilled"
    /\ Elapsed(kills[c]) = GracePeriod + SettlePeriod

\* C2: killWebDriver(null) and killWebDriver(undefined) return a promise that
\* is fulfilled with no error at once, with no timer started and quit never
\* invoked.
C2_NullishResolves ==
  \A c \in Calls :
    (kills[c].called /\ IsNullish(kills[c].handle)) =>
      /\ kills[c].result = "fulfilled"
      /\ kills[c].error = "none"
      /\ Elapsed(kills[c]) = 0
      /\ kills[c].timers = 0
      /\ kills[c].quitCalls = 0
      /\ ~kills[c].graceArmed
      /\ ~kills[c].settleArmed

\* both killWebDriver(null) and killWebDriver(undefined) were called
C2_Witness ==
  \E c, d \in Calls :
    /\ kills[c].called /\ kills[c].handle.type = "null"
    /\ kills[d].called /\ kills[d].handle.type = "undefined"

\* C3: killWebDriver on a non-null handle whose quit is missing or is not a
\* function returns a promise rejected with the error naming the missing quit
\* method; it does not throw, and starts neither timer.
C3_NoQuitRejects ==
  \A c \in Calls :
    (kills[c].called /\ kills[c].handle.type = "object"
       /\ kills[c].handle.quit # "function") =>
      /\ kills[c].result = "rejected"
      /\ kills[c].error = QuitMissingError
      /\ kills[c].timers = 0
      /\ kills[c].quitCalls = 0
      /\ ~kills[c].graceArmed
      /\ ~kills[c].settleArmed

\* a handle with no quit member and one whose quit is a string were both tried
C3_Witness ==
  \E c, d \in Calls :
    /\ kills[c].called /\ kills[c].handle.type = "object"
    /\ kills[c].handle.quit = "undefined"
    /\ kills[d].called /\ kills[d].handle.type = "object"
    /\ kills[d].handle.quit = "string"

\* C14: on a quit-capable handle killWebDriver waits in two phases, in this
\* order.  Phase one (the first promise pending) lasts exactly until the
\* first of: quit() fulfilled, quit() rejected, grace timer fired; none of
\* them rejects anything.  Until then no settle timer runs.  The settle timer
\* is set when phase one ends, for a full SettlePeriod; the returned
\* promise is fulfilled when it fires and not before; and once the callback
\* that ends phase one has run the grace timer is cancelled.
C14_TwoPhases ==
  \A c \in Calls :
    QuitCapable(kills[c]) =>
      LET k == kills[c] IN
      /\ k.outer \in {"pending", "fulfilled"}
      /\ k.result \in {"pending", "fulfilled"}
      /\ k.outer = "pending" =>
           /\ k.quit = "pending" \/ k.reactionPending
           /\ k.graceArmed
           /\ now <= k.graceAt
           /\ ~k.settleArmed
           /\ k.result = "pending"
      /\ k.outer = "fulfilled" =>
           /\ k.raceWonBy \in {"quit", "timer"}
           /\ k.raceWonBy = "quit" => k.quit \in {"fulfilled", "rejected"}
           /\ k.raceWonBy = "timer" => k.raceEndAt = k.startTime + GracePeriod
           /\ k.startTime <= k.raceEndAt
           /\ k.raceEndAt <= k.startTime + GracePeriod
      /\ (k.outer = "fulfilled" /\ ~k.thenPending) => ~k.graceArmed
      /\ k.thenPending => (~k.settleArmed /\ k.result = "pending")
      /\ k.settleArmed =>
           (k.settleAt = k.raceEndAt + SettlePeriod /\ k.result = "pending")
      /\ k.result = "fulfilled" =>
           k.endTime = k.raceEndAt + SettlePeriod

\* quit() was rejected some time after the call and before the grace timer
\* was due, and the returned promise was fulfilled a settle period later
C14_Witness ==
  \E c \in Calls :
    /\ QuitCapable(kills[c])
    /\ kills[c].quit = "rejected"
    /\ kills[c].raceWonBy = "quit"
    /\ kills[c].raceEndAt > kills[c].startTime
    /\ kills[c].raceEndAt < kills[c].startTime + GracePeriod
    /\ kills[c].result = "fulfilled"
    /\ kills[c].endTime = kills[c].raceEndAt + SettlePeriod

\* C10 as stated: killWebDriver with no handle, or with a handle that an
\* earlier, completed killWebDriver call already closed, is fulfilled at once
\* with no error and without any timer being waited for.
C10_Original ==
  \A c \in Calls :
    (kills[c].called /\ (IsNullish(kills[c].handle) \/ kills[c].closedBefore)) =>
      /\ kills[c].result = "fulfilled"
      /\ kills[c].error = "none"
      /\ Elapsed(kills[c]) = 0
      /\ kills[c].timers = 0

\* C10 amended: with no handle killWebDriver is fulfilled at once with no
\* error; with an already-closed handle it is never rejected either, but it
\* runs the whole procedure again: quit() is invoked again, the grace timer is
\* started again, and the promise is fulfilled no earlier than SettlePeriod
\* after the call.
C10_Amended ==
  \A c \in Calls :
    /\ (kills[c].called /\ IsNullish(kills[c].handle)) =>
         /\ kills[c].result = "fulfilled"
         /\ kills[c].error = "none"
         /\ Elapsed(kills[c]) = 0
         /\ kills[c].timers = 0
    /\ (kills[c].called /\ kills[c].closedBefore) =>
         /\ kills[c].result \in {"pending", "fulfilled"}
         /\ kills[c].error = "none"
         /\ kills[c].quitCalls = 1
         /\ kills[c].timers >= 1
         /\ kills[c].result = "fulfilled" => Elapsed(kills[c]) >= SettlePeriod

\* a second call on the already-closed driver has completed
C10_Witness ==
  \E c \in Calls :
    /\ kills[c].called
    /\ kills[c].closedBefore
    /\ kills[c].result = "fulfilled"
(***************************************************************************)
(* The local browser entity (LocalBrowser).                                *)
(*                                                                         *)
(* What the subclass and the host answer is an input of each call:         *)
(*   path   what getExecutablePath() does: it throws (the base class), or  *)
(*          returns null, the empty string or a path;                      *)
(*   disk   whether fs.lstatSync(path) finds the file;                     *)
(*   min    what _getMinSupportedVersion() does: it throws, returns false  *)
(*          (the base class: no minimum) or returns a version;             *)
(*   ver    what getVersionNumber() does: it throws (the base class) or    *)
(*          returns -1 (unknown) or a version;                             *)
(*   black  what isBlackListed() does: it throws or returns a boolean;     *)
(*   probe  what execSync of the executable with --version does: it fails  *)
(*          or prints nothing or a version string.                         *)
(***************************************************************************)
ExecutablePaths == {"throws", "null", "empty", "/usr/bin/browser"}

\* a configured minimum is a browser version, 1 or more
MinVersions ==
  {[kind |-> "throws", n |-> 0], [kind |-> "false", n |-> 0]}
  \cup {[kind |-> "number", n |-> v] : v \in 1..MaxVersion}

VersionNumbers ==
  {[kind |-> "throws", n |-> 0]}
  \cup {[kind |-> "number", n |-> v] : v \in {-1} \cup 1..MaxVersion}

BlackListed == {"throws", "true", "false"}

ProbeResults == {"fails", "empty", "Browser 1.0", "Browser 2.0"}

\* isValid() with the minimum version never compared: only the blacklist decides
IsValidTryNoMinimum(path, disk, min, ver, black) ==
  LET s1 == <<"getExecutablePath", "lstatSync">>
      s2 == s1 \o <<"_getMinSupportedVersion">>
      s3 == s2 \o <<"isBlackListed">>
  IN IF ~disk THEN [result |-> "false", steps |-> s1]
     ELSE IF min.kind = "throws" THEN [result |-> "false", steps |-> s2]
     ELSE IF black = "false" THEN [result |-> "true", steps |-> s3]
     ELSE [result |-> "false", steps |-> s3]

\* the try block of isValid(): whatever throws in it is caught, and false returned
IsValidTry(path, disk, min, ver, black) ==
  LET s1 == <<"getExecutablePath", "lstatSync">>
      s2 == s1 \o <<"_getMinSupportedVersion">>
      s3 == s2 \o <<"getVersionNumber">>
      s4 == s2 \o <<"isBlackListed">>
  IN IF ~disk THEN [result |-> "false", steps |-> s1]
     ELSE IF min.kind = "throws" THEN [result |-> "false", steps |-> s2]
     ELSE IF min.kind = "number" /\ min.n # 0
       THEN IF ver.kind = "throws" THEN [result |-> "false", steps |-> s3]
            ELSE IF ver.n >= min.n THEN [result |-> "true", steps |-> s3]
            ELSE [result |-> "false", steps |-> s3]
     ELSE IF black = "throws" THEN [result |-> "false", steps |-> s4]
     ELSE IF black = "true" THEN [result |-> "false", steps |-> s4]
     ELSE [result |-> "true", steps |-> s4]

\* isValid() with the test of the executable path left out: lstatSync of a
\* null path throws inside the try block
IsValidRunNoPathCheck(path, disk, min, ver, black) ==
  IF path = "throws"
  THEN [result |-> "throws", steps |-> <<"getExecutablePath">>]
  ELSE IF Falsy(path)
  THEN [result |-> "false", steps |-> <<"getExecutablePath", "lstatSync">>]
  ELSE IsValidTry(path, disk, min, ver, black)

\* isValid(): getExecutablePath() is called before the try block
IsValidRun(path, disk, min, ver, black) ==
  IF path = "throws"
  THEN [result |-> "throws", steps |-> <<"getExecutablePath">>]
  ELSE IF Falsy(path)
  THEN [result |-> "false", steps |-> <<"getExecutablePath">>]
  ELSE IsValidTry(path, disk, min, ver, black)

\* getRawVersionString() with the cached value never looked at
RawVersionRunNoCache(cache, path, probe) ==
  IF path = "throws"
  THEN [result |-> "throws", cache |-> cache, probed |-> FALSE]
  ELSE IF Falsy(path)
  THEN [result |-> "null", cache |-> cache, probed |-> FALSE]
  ELSE LET out == IF probe = "fails" THEN "null" ELSE probe
       IN [result |-> out, cache |-> out, probed |-> TRUE]

\* getRawVersionString(): what it returns, what it leaves in
\* _rawVerstionString, and whether it ran the executable
RawVersionRun(cache, path, probe) ==
  IF ~Falsy(cache)
  THEN [result |-> cache, cache |-> cache, probed |-> FALSE]
  ELSE IF path = "throws"
  THEN [result |-> "throws", cache |-> cache, probed |-> FALSE]
  ELSE IF Falsy(path)
  THEN [result |-> "null", cache |-> cache, probed |-> FALSE]
  ELSE LET out == IF probe = "fails" THEN "null" ELSE probe
       IN [result |-> out, cache |-> out, probed |-> TRUE]

(***************************************************************************)
(* getSeleniumDriver().  Its inputs:                                       *)
(*   module   getDriverModule(): none, a module that is installed, or one  *)
(*            whose require throws;                                        *)
(*   id       getId();                                                     *)
(*   builder  getSeleniumDriverBuilder(): the base class's, which throws,  *)
(*            or a subclass's;                                             *)
(*   build    what builder.build() does: it throws, or returns a thenable, *)
(*            a session, null or undefined.                                *)
(***************************************************************************)
DriverModules == {"none", "installed", "missing"}
BrowserIds == {"chrome", "opera"}
Builders == {"base", "subclass"}
BuildResults == {"throws", "thenable", "session", "null", "undefined"}

MustOverrideError == "getSeleniumDriverBuilder() must be overriden by subclasses"
BuildError == "build() failed"

\* whether the first try block appends the driver's directory to PATH
AppendsPath(module, id) == module = "installed" /\ id = "opera"

\* getSeleniumDriver() with the builder obtained outside the try block
DriverRunNoTry(builder, build) ==
  IF builder = "base"
  THEN [result |-> "threw", error |-> MustOverrideError, value |-> "none"]
  ELSE IF build = "throws"
  THEN [result |-> "rejected", error |-> BuildError, value |-> "none"]
  ELSE IF build \in {"null", "undefined"}
  THEN [result |-> "rejected", error |-> TypeError, value |-> "none"]
  ELSE IF build = "thenable"
  THEN [result |-> "returned", error |-> "none", value |-> build]
  ELSE [result |-> "fulfilled", error |-> "none", value |-> build]

\* getSeleniumDriver() with the test of buildResult.then left out: whatever
\* build() returned is returned
DriverRunNoWrap(builder, build) ==
  IF builder = "base"
  THEN [result |-> "rejected", error |-> MustOverrideError, value |-> "none"]
  ELSE IF build = "throws"
  THEN [result |-> "rejected", error |-> BuildError, value |-> "none"]
  ELSE [result |-> "returned", error |-> "none", value |-> build]

\* the second try block of getSeleniumDriver(): what the caller receives.
\* "returned" is the very value build() returned, "fulfilled" and "rejected"
\* are new promises, fulfilled with value or rejected with error.  Reading
\* .then off null or undefined throws inside the try block.
DriverRun(builder, build) ==
  IF builder = "base"
  THEN [result |-> "rejected", error |-> MustOverrideError, value |-> "none"]
  ELSE IF build = "throws"
  THEN [result |-> "rejected", error |-> BuildError, value |-> "none"]
  ELSE IF build \in {"null", "undefined"}
  THEN [result |-> "rejected", error |-> TypeError, value |-> "none"]
  ELSE IF build = "thenable"
  THEN [result |-> "returned", error |-> "none", value |-> build]
  ELSE [result |-> "fulfilled", error |-> "none", value |-> build]

(***************************************************************************)
(* The actions of SpecBrowser.                                             *)
(***************************************************************************)
IsValid(path, disk, min, ver, black) ==
  LET r == IsValidRun(path, disk, min, ver, black)
  IN /\ last' = [op |-> "isValid", path |-> path, disk |-> disk, min |-> min,
                 ver |-> ver, black |-> black,
                 result |-> r.result, steps |-> r.steps]
     /\ UNCHANGED <<rawVerstionString, execCount, rawCalls, pathAdds, killVars, entityVars>>

GetRawVersionString(path, probe) ==
  LET r == RawVersionRun(rawVerstionString, path, probe)
  IN /\ rawCalls < MaxRawCalls
     /\ rawCalls' = rawCalls + 1
     /\ rawVerstionString' = r.cache
     /\ execCount' = IF r.probed THEN execCount + 1 ELSE execCount
     /\ last' = [op |-> "getRawVersionString", path |-> path, probe |-> probe,
                 result |-> r.result, probed |-> r.probed]
     /\ UNCHANGED <<pathAdds, killVars, entityVars>>

GetSeleniumDriver(module, id, builder, build) ==
  LET r == DriverRun(builder, build)
  IN /\ AppendsPath(module, id) => pathAdds < MaxPathAdds
     /\ pathAdds' = IF AppendsPath(module, id) THEN pathAdds + 1 ELSE pathAdds
     /\ last' = [op |-> "getSeleniumDriver", module |-> module, id |-> id,
                 builder |-> builder, build |-> build,
                 result |-> r.result, error |-> r.error,
                 value |-> r.value]
     /\ UNCHANGED <<rawVerstionString, execCount, rawCalls, killVars, entityVars>>

\* isValid() reads nothing the other operations write and writes nothing:
\* it is checked on its own, over all its inputs
NextValid ==
  \E path \in ExecutablePaths, disk \in BOOLEAN, min \in MinVersions,
     ver \in VersionNumbers, black \in BlackListed :
    IsValid(path, disk, min, ver, black)

SpecValid == Init /\ [][NextValid]_vars

\* the operations that keep state: the cached version string and PATH
NextBrowser ==
  \/ \E path \in ExecutablePaths, probe \in ProbeResults :
       GetRawVersionString(path, probe)
  \/ \E module \in DriverModules, id \in BrowserIds, builder \in Builders,
        build \in BuildResults :
       GetSeleniumDriver(module, id, builder, build)

SpecBrowser == Init /\ [][NextBrowser]_vars
(***************************************************************************)
(* Claims about isValid(), checked under SpecValid.                        *)
(***************************************************************************)
ValidCalled == last.op = "isValid"

\* C4: isValid() is false for every blacklisted browser (isBlackListed()
\* returns true), even when the executable exists on disk and the version
\* meets a configured minimum.  (A version is resolved only where
\* getExecutablePath() does not throw; that case is C6's.)
C4_BlackListedInvalid ==
  (ValidCalled /\ last.path # "throws" /\ last.black = "true") =>
    last.result = "false"

\* C6: isValid() never throws: whichever step throws (getExecutablePath(),
\* lstatSync, _getMinSupportedVersion(), getVersionNumber(),
\* isBlackListed()), the result is false.
C6_NeverThrows ==
  ValidCalled =>
    /\ last.result \in {"true", "false"}
    /\ last.path = "throws" => last.result = "false"

\* C7: isValid() is false whenever getExecutablePath() returns null or the
\* empty string, and then nothing else is done: no lstatSync, no version
\* probe, no blacklist check.
C7_NoPathInvalid ==
  (ValidCalled /\ Falsy(last.path)) =>
    /\ last.result = "false"
    /\ last.steps = <<"getExecutablePath">>

\* isValid() ran on an entity whose getExecutablePath() returned null
C7_Witness ==
  /\ ValidCalled
  /\ last.path = "null"
  /\ last.disk
  /\ last.result = "false"

\* C8: with a minimum supported version configured (a version number, 1 or
\* more), isValid() is false whenever the resolved version number is below
\* it, the unknown version -1 included, even if the executable is on disk.
C8_BelowMinimumInvalid ==
  (/\ ValidCalled
   /\ last.path # "throws"
   /\ last.min.kind = "number"
   /\ last.ver.kind = "number"
   /\ last.ver.n < last.min.n) =>
    last.result = "false"

\* the executable is on disk, the version is known and below the minimum,
\* the browser is not blacklisted, and the comparison was made
C8_Witness ==
  /\ ValidCalled
  /\ ~Falsy(last.path) /\ last.path # "throws"
  /\ last.disk
  /\ last.min.kind = "number"
  /\ last.ver.kind = "number"
  /\ last.ver.n >= 1
  /\ last.ver.n < last.min.n
  /\ last.black = "false"
  /\ last.steps = <<"getExecutablePath", "lstatSync",
                    "_getMinSupportedVersion", "getVersionNumber">>
  /\ last.result = "false"

(***************************************************************************)
(* Claims about getRawVersionString() and getSeleniumDriver(), checked     *)
(* under SpecBrowser.                                                      *)
(***************************************************************************)
RawCalled == rawCalls' = rawCalls + 1

C9_DriverNeverThrows ==
  last.op = "getSeleniumDriver" =>
    /\ last.result # "threw"
    /\ last.builder = "base" =>
         (last.result = "rejected" /\ last.error = MustOverrideError)
    /\ (last.builder = "subclass" /\ last.build = "throws") =>
         (last.result = "rejected" /\ last.error = BuildError)

\* getSeleniumDriver() ran on an entity that does not override
\* getSeleniumDriverBuilder()
C9_Witness ==
  /\ last.op = "getSeleniumDriver"
  /\ last.builder = "base"
  /\ last.result = "rejected"
\* what the caller holds is promise-like: a new promise, or the thenable that
\* build() returned
PromiseLike(l) ==
  \/ l.result \in {"fulfilled", "rejected"}
  \/ l.result = "returned" /\ l.value = "thenable"

\* C15: getSeleniumDriver() normalizes the build result: a thenable that
\* build() returned is returned as it is; a session that build() returned
\* directly comes back as a promise fulfilled with that session; and whatever
\* build() returns (null and undefined included) the caller holds a
\* promise-like value.
C15_BuildNormalized ==
  (last.op = "getSeleniumDriver" /\ last.builder = "subclass") =>
    /\ last.build = "thenable" =>
         (last.result = "returned" /\ last.value = "thenable")
    /\ last.build = "session" =>
         (last.result = "fulfilled" /\ last.value = "session")
    /\ PromiseLike(last)

\* build() returned the session directly and the caller got a promise
\* fulfilled with it
C15_Witness ==
  /\ last.op = "getSeleniumDriver"
  /\ last.builder = "subclass"
  /\ last.build = "session"
  /\ last.result = "fulfilled"
  /\ last.value = "session"
(***************************************************************************)
(* The constructor of LocalBrowser and the getters of what it stores.      *)
(* A string is the sequence of its pieces; the empty string is <<>>.       *)
(* The inputs of a constructor call:                                       *)
(*   base       what super(config) does: it returns or it throws;          *)
(*   name       config._prettyName: missing, a number, or a string;        *)
(*   release    the release argument;                                      *)
(*   entry      getPrettyReleaseNames()[release]: the base class's static  *)
(*              method throws; a subclass's table holds nothing for the    *)
(*              release, the empty string or a suffix;                     *)
(*   blacklist  the blacklist argument.                                    *)
(***************************************************************************)
Releases == {"stable", "beta", "unstable"}

ReleaseArgs == Releases \cup {"nightly", "undefined"}

BaseConfigs == {"ok", "throws"}

PrettyNames ==
  {[type |-> "undefined", s |-> <<>>],
   [type |-> "number", s |-> <<>>],
   [type |-> "string", s |-> <<>>],
   [type |-> "string", s |-> <<"Chrome">>]}

ReleaseNameEntries ==
  {[kind |-> "throws", s |-> <<>>],
   [kind |-> "undefined", s |-> <<>>],
   [kind |-> "string", s |-> <<>>],
   [kind |-> "string", s |-> <<"Beta">>]}

Blacklists == {"undefined", "table"}

ConfigError == "super(config) failed"
PrettyNameError == "Invalid prettyName value: "
ReleaseError == "Unexpected browser release given: "
ReleaseNamesError == "getPrettyReleaseNames() must be overriden by subclasses"

\* if (releaseNames[release]): a non-empty string
HasSuffix(entry) == entry.kind = "string" /\ Len(entry.s) > 0

\* a constructor call that threw: no entity
NotMade(error) ==
  [made |-> FALSE, error |-> error, prettyName |-> <<>>, release |-> "none",
   blacklist |-> "none", configName |-> <<>>,
   entry |-> [kind |-> "undefined", s |-> <<>>]]

\* the fields of the entity once both checks have passed
Made(name, release, entry, blacklist) ==
  IF entry.kind = "throws" THEN NotMade(ReleaseNamesError)
  ELSE [made |-> TRUE, error |-> "none",
        prettyName |-> IF HasSuffix(entry) THEN name.s \o <<" ">> \o entry.s
                       ELSE name.s,
        release |-> release, blacklist |-> blacklist,
        configName |-> name.s, entry |-> entry]

\* the constructor with the test of the release left out
ConstructRunNoReleaseCheck(base, name, release, entry, blacklist) ==
  IF base = "throws" THEN NotMade(ConfigError)
  ELSE IF name.type # "string" \/ Len(name.s) = 0 THEN NotMade(PrettyNameError)
  ELSE Made(name, release, entry, blacklist)

\* the constructor with the test of the pretty name's length left out
ConstructRunNoLengthCheck(base, name, release, entry, blacklist) ==
  IF base = "throws" THEN NotMade(ConfigError)
  ELSE IF name.type # "string" THEN NotMade(PrettyNameError)
  ELSE IF release \notin Releases THEN NotMade(ReleaseError)
  ELSE Made(name, release, entry, blacklist)

\* new LocalBrowser(config, release, blacklist)
ConstructRun(base, name, release, entry, blacklist) ==
  IF base = "throws" THEN NotMade(ConfigError)
  ELSE IF name.type # "string" \/ Len(name.s) = 0 THEN NotMade(PrettyNameError)
  ELSE IF release \notin Releases THEN NotMade(ReleaseError)
  ELSE Made(name, release, entry, blacklist)

(***************************************************************************)
(* The actions of SpecEntity.                                              *)
(***************************************************************************)
Construct(base, name, release, entry, blacklist) ==
  LET r == ConstructRun(base, name, release, entry, blacklist)
  IN /\ ~entity.made
     /\ entity' = IF r.made THEN r ELSE entity
     /\ last' = [op |-> "construct", base |-> base, name |-> name,
                 release |-> release, entry |-> entry,
                 blacklist |-> blacklist, made |-> r.made, error |-> r.error]
     /\ UNCHANGED <<rawVerstionString, execCount, rawCalls, pathAdds,
                    discovery, killVars>>

GetReleaseName ==
  /\ entity.made
  /\ last' = [op |-> "getReleaseName", result |-> entity.release]
  /\ UNCHANGED <<rawVerstionString, execCount, rawCalls, pathAdds,
                 entityVars, killVars>>

GetPrettyName ==
  /\ entity.made
  /\ last' = [op |-> "getPrettyName", result |-> entity.prettyName]
  /\ UNCHANGED <<rawVerstionString, execCount, rawCalls, pathAdds,
                 entityVars, killVars>>

\* getRawVersionString() on the constructed entity: the one method of the
\* class that writes a field after construction
EntityGetRawVersionString(path, probe) ==
  /\ entity.made
  /\ GetRawVersionString(path, probe)

NextEntity ==
  \/ \E base \in BaseConfigs, name \in PrettyNames, release \in ReleaseArgs,
        entry \in ReleaseNameEntries, blacklist \in Blacklists :
       Construct(base, name, release, entry, blacklist)
  \/ GetReleaseName
  \/ GetPrettyName
  \/ \E path \in ExecutablePaths, probe \in ProbeResults :
       EntityGetRawVersionString(path, probe)

SpecEntity == Init /\ [][NextEntity]_vars

(***************************************************************************)
(* Claims about the constructor and the getters, checked under SpecEntity. *)
(***************************************************************************)
\* C11: every constructed local browser has a release name among stable,
\* beta and unstable, the one it was constructed with, and getReleaseName()
\* returns it however the entity has been used since; a constructor call
\* with any other release throws and leaves no entity.
C11_ReleaseName ==
  /\ entity.made => entity.release \in Releases
  /\ last.op = "getReleaseName" =>
       (last.result \in Releases /\ last.result = entity.release)
  /\ (last.op = "construct" /\ last.made) => entity.release = last.release
  /\ (last.op = "construct" /\ last.release \notin Releases) =>
       (~last.made /\ last.error # "none" /\ ~entity.made)

\* getReleaseName() answered beta on an entity that has since been probed
C11_Witness ==
  /\ entity.made
  /\ execCount >= 1
  /\ last.op = "getReleaseName"
  /\ last.result = "beta"

\* C12: the pretty name of every constructed local browser is non-empty: it
\* is the descriptor's non-empty pretty name, followed by a space and the
\* release's suffix exactly when the family's table holds a (non-empty)
\* suffix for that release; getPrettyName() returns it; a constructor call
\* with a missing, non-string or empty pretty name throws and leaves no
\* entity.
C12_PrettyName ==
  /\ entity.made =>
       /\ Len(entity.prettyName) > 0
       /\ Len(entity.configName) > 0
       /\ SubSeq(entity.prettyName, 1, Len(entity.configName)) = entity.configName
       /\ HasSuffix(entity.entry) =>
            entity.prettyName = entity.configName \o <<" ">> \o entity.entry.s
       /\ ~HasSuffix(entity.entry) => entity.prettyName = entity.configName
  /\ last.op = "getPrettyName" =>
       (Len(last.result) > 0 /\ last.result = entity.prettyName)
  /\ (last.op = "construct"
        /\ (last.name.type # "string" \/ Len(last.name.s) = 0)) =>
       (~last.made /\ last.error # "none" /\ ~entity.made)

\* getPrettyName() returned the descriptor's name with the release's suffix
C12_Witness ==
  /\ last.op = "getPrettyName"
  /\ last.result = <<"Chrome", " ", "Beta">>
  /\ entity.release = "beta"
(***************************************************************************)
(* getLocalBrowsers().  The host's process.platform and the number of      *)
(* browsers getSupportedBrowsers() returns are inputs of the call; what    *)
(* each browser's isValid() meets is an input of the filter callback,      *)
(* which Array.filter calls once per browser, in order.                    *)
(***************************************************************************)
Platforms == {"darwin", "linux", "win32"}

PlatformError == "Sorry this library only supports OS X and Linux."
IsValidError == "getExecutablePath() must be overriden by subclasses"

\* process.platform !== 'darwin' && process.platform !== 'linux'
Unsupported(platform) == platform # "darwin" /\ platform # "linux"

\* the call up to the filter: the platform test, then getSupportedBrowsers()
DiscoveryStart(platform, count) ==
  IF Unsupported(platform)
  THEN [status |-> "threw", platform |-> platform, count |-> 0,
        probed |-> <<>>, kept |-> <<>>, error |-> PlatformError]
  ELSE [status |-> IF count = 0 THEN "returned" ELSE "filtering",
        platform |-> platform, count |-> count,
        probed |-> <<>>, kept |-> <<>>, error |-> "none"]

\* the filter callback on the next browser: return webdriverBrowser.isValid().
\* An exception of isValid() leaves filter and getLocalBrowsers().
DiscoveryFilter(d, path, r) ==
  IF r.result = "throws"
  THEN [d EXCEPT !.status = "threw", !.error = IsValidError,
                 !.probed = Append(d.probed, [path |-> path, result |-> r.result])]
  ELSE LET probed == Append(d.probed, [path |-> path, result |-> r.result])
           kept == IF r.result = "true" THEN Append(d.kept, Len(probed))
                   ELSE d.kept
       IN [d EXCEPT !.probed = probed, !.kept = kept,
                    !.status = IF Len(probed) = d.count THEN "returned"
                               ELSE "filtering"]

(***************************************************************************)
(* The actions of SpecDiscover.                                            *)
(***************************************************************************)
GetLocalBrowsers(platform, count) ==
  /\ discovery.status = "idle"
  /\ discovery' = DiscoveryStart(platform, count)
  /\ UNCHANGED <<browserVars, entity, killVars>>

FilterBrowser(path, disk, min, ver, black) ==
  /\ discovery.status = "filtering"
  /\ discovery' = DiscoveryFilter(discovery, path,
                                  IsValidRun(path, disk, min, ver, black))
  /\ UNCHANGED <<browserVars, entity, killVars>>

NextDiscover ==
  \/ \E platform \in Platforms, count \in 0..MaxBrowsers :
       GetLocalBrowsers(platform, count)
  \/ \E path \in ExecutablePaths, disk \in BOOLEAN, min \in MinVersions,
        ver \in VersionNumbers, black \in BlackListed :
       FilterBrowser(path, disk, min, ver, black)

SpecDiscover == Init /\ [][NextDiscover]_vars

(***************************************************************************)
(* Claims about getLocalBrowsers(), checked under SpecDiscover.            *)
(***************************************************************************)
\* the browsers, by their place in the list, whose isValid() was true
ValidPlaces(d) ==
  {i \in 1..Len(d.probed) : d.probed[i].result = "true"}

\* C13: on a platform that is neither darwin nor linux getLocalBrowsers()
\* throws before any browser is probed; on darwin and linux it never throws,
\* whatever the browsers are, and returns exactly the supported browsers
\* whose isValid() is true.
C13_Discovery ==
  /\ (discovery.status # "idle" /\ Unsupported(discovery.platform)) =>
       /\ discovery.status = "threw"
       /\ discovery.error = PlatformError
       /\ discovery.probed = <<>>
  /\ (discovery.status # "idle" /\ ~Unsupported(discovery.platform)) =>
       discovery.status # "threw"
  /\ discovery.status = "returned" =>
       /\ Len(discovery.probed) = discovery.count
       /\ {discovery.kept[i] : i \in 1..Len(discovery.kept)} = ValidPlaces(discovery)
       /\ Len(discovery.kept) = Cardinality(ValidPlaces(discovery))
====
